---- MODULE Spec2Model ----
(***************************************************************************)
(* The WebSocket transport of the Frinny module: AgentManager (the         *)
(* connectionPromise version, AgentManager.js lines 108-793), its timers,  *)
(* the RobustWebSocket events it listens to and the host calls that reach  *)
(* it.  Durations are in milliseconds.                                     *)
(***************************************************************************)
EXTENDS Integers, Sequences, FiniteSets, TLC

\* ---------------------------------------------------------------- constants
RequestTimeoutMs == 30000
ConnectionTimeoutMs == 15000
MonitorIntervalMs == 10000
StaleThresholdMs == 25000
maxReconnectAttempts == 5
BaseDelayMs == 1000
MaxDelayMs == 5000

\* null: no promise, no attempt
Null == 0
\* an envelope without request_id
NoRequestId == <<>>
userId == "gm"
\* this.typingCallback = null
NoCallback == "null"

\* game.settings.get('frinny', 'backendUrl') || 'https://frinny.net'
DefaultBackendUrl == "https://frinny.net"

\* ------------------------------------------------------------------- bounds
MaxSends == 2
MaxAttempts == 2

\* Time passes in steps, and never past a timer that is due.  TickStep divides the
\* two timeouts (15 s, 30 s); FineStep also divides the monitor's period and
\* threshold (10 s, 25 s) and is the step of the specification that runs the monitor.
TickStep == ConnectionTimeoutMs
FineStep == MonitorIntervalMs \div 2

Contents == {"hello"}
Urls == {"good", "bad"}

VARIABLES
    clock,              \* the reading of Date.now(), as the index of the instant: request ids
                        \* are compared for equality only, elapsed time is kept in the timers
    isConnected,        \* this.isConnected
    socket,             \* this.socket: "null", or the state of the RobustWebSocket held
    handlers,           \* the attempt whose _onOpen/_onClose/_onError/_onMessage are attached to this.socket
    connectionPromise,  \* this.connectionPromise: Null or an attempt
    attempts,           \* one record per promise created by connect()
    libLoaded,          \* window.RobustWebSocket is defined
    wsUrl,              \* this.wsUrl
    reconnectAttempts,  \* this.reconnectAttempts
    reconnectDelay,     \* the delay shouldReconnect returned for the retry RobustWebSocket has
                        \* scheduled; 0 when none is scheduled
    pendingRequests,    \* this.pendingRequests: request_id -> the request whose callbacks the entry holds
    requests,           \* one record per _sendMessage call
    monitorIn,          \* time left until the request monitor's interval fires
    staleReported,      \* requests the monitor has reported as stale
    typingCallback,     \* this.typingCallback: NoCallback or the callback registered
    invoked,            \* what the handler of the last inbound message called, in call order
    backendUrl,         \* this.backendUrl
    httpRequests        \* the fetch() calls made so far, in call order

vars == <<clock, isConnected, socket, handlers, connectionPromise, attempts,
          libLoaded, wsUrl, reconnectAttempts, reconnectDelay, pendingRequests, requests,
          monitorIn, staleReported, typingCallback, invoked, backendUrl, httpRequests>>

uiVars == <<typingCallback, invoked>>

httpVars == <<backendUrl, httpRequests>>

connVars == <<isConnected, socket, handlers, connectionPromise, attempts, libLoaded,
              reconnectDelay>>

\* ------------------------------------------------------------------ helpers
Min(a, b) == IF a <= b THEN a ELSE b
EmptyTable == [x \in {} |-> Null]

\* new Error(msg), in the shape of a settled value
ErrWith(prefix, msg) == [action |-> "Error", request_id |-> NoRequestId, content |-> msg, prefix |-> prefix]
Err(msg) == ErrWith("", msg)
NoResult == [action |-> "", request_id |-> NoRequestId, content |-> "", prefix |-> ""]

\* The pair (requests, pendingRequests) the request-side code works on.
RS(reqs, table) == [reqs |-> reqs, table |-> table]

\* ------------------------------------------------------- promise primitives
\* The native resolve/reject of request j's promise: only the first call settles it.
SettleNative(reqs, j, st, val) ==
    [reqs EXCEPT ![j] = [@ EXCEPT !.settles = @ + 1,
                                  !.status = IF reqs[j].status = "pending" THEN st ELSE @,
                                  !.result = IF reqs[j].status = "pending" THEN val ELSE @]]

\* a cleanup that cancels the timer and leaves the entry in pendingRequests
cleanupKeepsEntry(S, j) ==
    RS([S.reqs EXCEPT ![j].armed = FALSE, ![j].remaining = 0, ![j].age = 0], S.table)

\* cleanup of request j: clearTimeout(timeoutId); pendingRequests.delete(requestId)
cleanup(S, j) ==
    RS([S.reqs EXCEPT ![j].armed = FALSE, ![j].remaining = 0, ![j].age = 0],
       [k \in DOMAIN S.table \ {S.reqs[j].id} |-> S.table[k]])

\* the entry's resolve: cleanup(); resolve(data)
entryResolve(S, j, data) ==
    LET C == cleanup(S, j) IN RS(SettleNative(C.reqs, j, "resolved", data), C.table)

\* the entry's reject: cleanup(); reject(error)
entryReject(S, j, error) ==
    LET C == cleanup(S, j) IN RS(SettleNative(C.reqs, j, "rejected", error), C.table)

\* a response handler that settles the request of that id whether or not the table holds it
resolveWithoutLookup(S, requestId, data) ==
    IF \E j \in DOMAIN S.reqs : S.reqs[j].id = requestId
    THEN entryResolve(S, CHOOSE j \in DOMAIN S.reqs : S.reqs[j].id = requestId, data)
    ELSE S

_handleSocketResponse(S, requestId, data) ==
    IF requestId \in DOMAIN S.table THEN entryResolve(S, S.table[requestId], data) ELSE S

_handleSocketError(S, requestId, error) ==
    IF requestId \in DOMAIN S.table THEN entryReject(S, S.table[requestId], error) ELSE S

\* for (const [requestId, {reject}] of this.pendingRequests) reject(error); this.pendingRequests.clear()
RECURSIVE rejectEach(_, _, _)
rejectEach(S, ids, error) ==
    IF ids = {} THEN S
    ELSE LET id == CHOOSE x \in ids : \A y \in ids : x[1] <= y[1]
         IN rejectEach(_handleSocketError(S, id, error), ids \ {id}, error)

rejectAllPending(S, error) ==
    RS(rejectEach(S, DOMAIN S.table, error).reqs, EmptyTable)

\* the setTimeout callback of request i (30 s after it was registered)
requestTimeout(S, i) ==
    LET S0 == RS([S.reqs EXCEPT ![i].armed = FALSE, ![i].remaining = 0, ![i].age = 0], S.table)
        id == S.reqs[i].id
    IN IF id \in DOMAIN S0.table
       THEN LET j == S0.table[id] IN entryReject(cleanup(S0, j), j, Err("WebSocket response timeout"))
       ELSE S0

\* this.socket.send(JSON.stringify(data)) on the RobustWebSocket: the native send throws
\* while the underlying socket is still connecting and drops the frame once it is closed;
\* without a socket the call itself throws.
sendThrows(sock) == sock \in {"connecting", "null"}

\* the body of the promise _emitAndWait returns: register the entry, arm the timer, send
registerAndSend(S, i, requestId, sock) ==
    LET reg == RS([S.reqs EXCEPT ![i] = [@ EXCEPT !.status = "pending", !.id = requestId,
                                                  !.registered = TRUE, !.armed = TRUE,
                                                  !.remaining = RequestTimeoutMs]],
                  (requestId :> i) @@ S.table)
    IN IF sendThrows(sock)
       THEN _handleSocketError(reg, requestId, ErrWith("WebSocket send failed: ", "InvalidStateError"))
       ELSE RS([reg.reqs EXCEPT ![i].transmitted = (sock = "open")], reg.table)

\* an _emitAndWait without the connection check
emitUnchecked(S, i, requestId, conn, sock) == registerAndSend(S, i, requestId, sock)

\* _emitAndWait(data, requestId) for the request record i
_emitAndWait(S, i, requestId, conn, sock) ==
    IF ~conn \/ sock = "null"
    THEN RS([S.reqs EXCEPT ![i] = [@ EXCEPT !.status = "rejected", !.settles = 1,
                                            !.result = Err("WebSocket not connected")]],
            S.table)
    ELSE registerAndSend(S, i, requestId, sock)

\* requestId = `${Date.now().toString()}:${this.userId}` (one user per client)
newRequestId(t) == <<t, userId>>

NewRequest(att) ==
    [id |-> NoRequestId, status |-> "awaiting", result |-> NoResult, armed |-> FALSE, remaining |-> 0,
     age |-> 0, settles |-> 0, registered |-> FALSE, transmitted |-> FALSE, attempt |-> att]

\* ---------------------------------------------------------------- waiters
\* _sendMessage calls suspended in `await this.connect()` on attempt a.
Waiters(reqs, a) == {i \in DOMAIN reqs : reqs[i].status = "awaiting" /\ reqs[i].attempt = a}

\* a _sendMessage without its catch: each waiter throws the attempt's own error
rethrowToWaiters(S, a) ==
    RS([i \in DOMAIN S.reqs |->
          IF i \in Waiters(S.reqs, a)
          THEN [S.reqs[i] EXCEPT !.status = "rejected", !.settles = 1,
                                 !.result = Err("Connection timeout")]
          ELSE S.reqs[i]],
       S.table)

\* the attempt rejected: each waiter throws 'Failed to send ...: WebSocket reconnection failed'
rejectWaiters(S, a) ==
    RS([i \in DOMAIN S.reqs |->
          IF i \in Waiters(S.reqs, a)
          THEN [S.reqs[i] EXCEPT !.status = "rejected", !.settles = 1,
                                 !.result = Err("WebSocket reconnection failed")]
          ELSE S.reqs[i]],
       S.table)

\* the attempt resolved: each waiter goes on, in call order, within the same turn
RECURSIVE resumeWaiters(_, _, _, _, _, _)
resumeWaiters(S, a, i, conn, sock, t) ==
    IF i > Len(S.reqs) THEN S
    ELSE resumeWaiters(IF i \in Waiters(S.reqs, a)
                       THEN _emitAndWait(S, i, newRequestId(t), conn, sock)
                       ELSE S,
                       a, i + 1, conn, sock, t)

\* ----------------------------------------------------------------- attempts
NewAttempt(st, err, armed, dl, ph) ==
    [status |-> st, error |-> err, armed |-> armed, remaining |-> dl, phase |-> ph]

\* clearTimeout(connectionTimeoutId) of attempt a, or its timer having fired
disarm(atts, a) == [atts EXCEPT ![a].armed = FALSE, ![a].remaining = 0]

\* native resolve/reject of attempt a's promise
settleAttempt(atts, a, st, err) ==
    IF atts[a].status = "pending"
    THEN [atts EXCEPT ![a].status = st, ![a].error = err]
    ELSE atts

\* new RobustWebSocket(wsUrlWithParams, ...) throws on a URL the browser rejects
constructorThrows(url) == url = "bad"

\* a delay that also depends on when it is computed
backoffWithJitter(n) == Min((BaseDelayMs * (3 ^ n)) \div (2 ^ n) + 100 * clock, MaxDelayMs)

\* a delay without the cap
backoffUncapped(n) == (BaseDelayMs * (3 ^ n)) \div (2 ^ n)

\* the reconnection delay shouldReconnect returns after incrementing the counter to n
backoffDelay(n) == Min((BaseDelayMs * (3 ^ n)) \div (2 ^ n), MaxDelayMs)

\* ------------------------------------------------------------------- Init
Init ==
    /\ clock = 0
    /\ isConnected = FALSE
    /\ socket = "null"
    /\ handlers = Null
    /\ connectionPromise = Null
    /\ attempts = <<>>
    /\ libLoaded \in BOOLEAN
    /\ wsUrl \in Urls
    /\ reconnectAttempts = 0
    /\ reconnectDelay = 0
    /\ pendingRequests = EmptyTable
    /\ requests = <<>>
    /\ monitorIn = MonitorIntervalMs
    /\ staleReported = {}
    /\ typingCallback = NoCallback
    /\ invoked = <<>>
    /\ backendUrl = DefaultBackendUrl
    /\ httpRequests = <<>>

\* ---------------------------------------------------------------- connect
\* the attempt whose promise a connect() call made now returns
connectReturns == IF connectionPromise # Null THEN connectionPromise ELSE Len(attempts) + 1

\* connect(): `if (this.connectionPromise) return this.connectionPromise`, else a new
\* attempt, run up to its first suspension
connect(url) ==
    IF connectionPromise # Null
    THEN UNCHANGED connVars
    ELSE /\ Len(attempts) < MaxAttempts
         /\ libLoaded' = libLoaded
         /\ reconnectDelay' = 0     \* socket.close(1000, ...) cancels a scheduled retry
         /\ connectionPromise' = Len(attempts) + 1
         /\ IF ~libLoaded
            THEN \* the executor suspends on the script load; the existing socket is already cleaned up
                 /\ attempts' = Append(attempts, NewAttempt("pending", "", FALSE, 0, "loading"))
                 /\ socket' = "null"
                 /\ handlers' = Null
                 /\ isConnected' = isConnected
            ELSE IF constructorThrows(url)
            THEN \* catch: isConnected = false; reject(error); the assignment of the new
                 \* promise to connectionPromise then overwrites the null the catch stored
                 /\ attempts' = Append(attempts, NewAttempt("rejected", "initialization",
                                                            TRUE, ConnectionTimeoutMs, "failed"))
                 /\ socket' = "null"
                 /\ handlers' = Null
                 /\ isConnected' = FALSE
            ELSE /\ attempts' = Append(attempts, NewAttempt("pending", "",
                                                            TRUE, ConnectionTimeoutMs, "socket"))
                 /\ socket' = "connecting"
                 /\ handlers' = Len(attempts) + 1
                 /\ isConnected' = isConnected

\* a connect() that, replacing an open socket, also rejects what is pending on it
HostConnectRejecting ==
    /\ connect(wsUrl)
    /\ LET S == RS(requests, pendingRequests)
           S1 == IF socket = "open" /\ connectionPromise = Null
                 THEN rejectAllPending(S, Err("WebSocket disconnected")) ELSE S
       IN /\ requests' = S1.reqs
          /\ pendingRequests' = S1.table
    /\ UNCHANGED <<clock, wsUrl, reconnectAttempts, monitorIn, staleReported, uiVars, httpVars>>

\* UIManager: this.agentManager.connect()
HostConnect ==
    /\ connect(wsUrl)
    /\ UNCHANGED <<clock, wsUrl, reconnectAttempts, pendingRequests, requests, monitorIn, staleReported, uiVars, httpVars>>

\* main.js, wsUrl onChange: agentManager.wsUrl = value; agentManager.connect()
SetWsUrl ==
    \E u \in Urls \ {wsUrl} :
        /\ wsUrl' = u
        /\ connect(u)
        /\ UNCHANGED <<clock, reconnectAttempts, pendingRequests, requests, monitorIn, staleReported, uiVars, httpVars>>

\* the script element of a suspended attempt loads (and defines RobustWebSocket) or fails
ScriptLoad ==
    \E a \in DOMAIN attempts, ok \in BOOLEAN :
        /\ attempts[a].phase = "loading"
        /\ LET S == RS(requests, pendingRequests)
               failed == ~ok \/ constructorThrows(wsUrl)
               S1 == IF failed THEN rejectWaiters(S, a) ELSE S
           IN /\ libLoaded' = ok
              /\ attempts' = [attempts EXCEPT ![a] =
                                IF ~ok THEN NewAttempt("rejected", "script load", FALSE, 0, "failed")
                                ELSE IF constructorThrows(wsUrl)
                                THEN NewAttempt("rejected", "initialization", TRUE,
                                                ConnectionTimeoutMs, "failed")
                                ELSE NewAttempt("pending", "", TRUE, ConnectionTimeoutMs, "socket")]
              /\ socket' = IF failed THEN socket ELSE "connecting"
              /\ handlers' = IF failed THEN handlers ELSE a
              /\ isConnected' = IF failed THEN FALSE ELSE isConnected
              /\ connectionPromise' = IF failed THEN Null ELSE connectionPromise
              /\ requests' = S1.reqs
              /\ pendingRequests' = S1.table
        /\ UNCHANGED <<clock, wsUrl, reconnectAttempts, reconnectDelay, monitorIn, staleReported, uiVars, httpVars>>

\* a timer callback that forgets the attempt without rejecting it
connectionTimeoutSilent(atts, a) == disarm(atts, a)

\* the setTimeout callback of attempt a: reject(new Error('... timeout after 15 seconds'))
connectionTimeout(atts, a) == settleAttempt(disarm(atts, a), a, "rejected", "timeout")

\* attempt a's timer fires, 15 s after it was armed
FireConnectionTimeout(a) ==
    /\ attempts[a].armed
    /\ attempts[a].remaining = 0
    /\ attempts' = connectionTimeout(attempts, a)
    /\ connectionPromise' = Null
    /\ LET S == RS(requests, pendingRequests)
           S1 == IF attempts[a].status = "pending" THEN rejectWaiters(S, a) ELSE S
       IN /\ requests' = S1.reqs
          /\ pendingRequests' = S1.table
    /\ UNCHANGED <<clock, isConnected, socket, handlers, libLoaded, wsUrl,
                   reconnectAttempts, reconnectDelay, monitorIn, staleReported, uiVars, httpVars>>

ConnectionTimeout == \E a \in DOMAIN attempts : FireConnectionTimeout(a)

\* -------------------------------------------------------- socket events
\* `if (this.connectionPromise) { clearTimeout(connectionTimeoutId); reject(...); connectionPromise = null }`
\* in the handlers of attempt k
failAttempt(atts, k, err) ==
    IF connectionPromise # Null
    THEN settleAttempt(disarm(atts, k), k, "rejected", err)
    ELSE atts

failWaiters(S, k) ==
    IF connectionPromise # Null /\ attempts[k].status = "pending" THEN rejectWaiters(S, k) ELSE S

\* a policy that compares with > instead of >=
shouldReconnectOffByOne(n) == n <= maxReconnectAttempts

\* shouldReconnect(event, ws): TRUE when a retry is authorised (the counter is then incremented)
shouldReconnect(n) == n < maxReconnectAttempts

\* 'open' on the socket held: _onOpen of the attempt that created it
OnOpen ==
    /\ socket = "connecting"
    /\ LET k == handlers
           S == RS(requests, pendingRequests)
           S1 == IF attempts[k].status = "pending"
                 THEN resumeWaiters(S, k, 1, TRUE, "open", clock) ELSE S
       IN /\ attempts' = settleAttempt(disarm(attempts, k), k, "resolved", "")
          /\ requests' = S1.reqs
          /\ pendingRequests' = S1.table
    /\ socket' = "open"
    /\ isConnected' = TRUE
    /\ reconnectAttempts' = 0
    /\ connectionPromise' = Null
    /\ UNCHANGED <<clock, handlers, libLoaded, wsUrl, reconnectDelay, monitorIn, staleReported, uiVars, httpVars>>

\* 'close' on the socket held: RobustWebSocket's own listener consults shouldReconnect
\* (not for a clean close, code 1000), then _onClose runs
Close(clean) ==
    /\ socket \in {"connecting", "open"}
    /\ clean => socket = "open"
    /\ LET retry == ~clean /\ shouldReconnect(reconnectAttempts)
           k == handlers
           S == RS(requests, pendingRequests)
           S1 == failWaiters(rejectAllPending(S, Err("WebSocket disconnected")), k)
       IN /\ reconnectAttempts' = IF retry THEN reconnectAttempts + 1 ELSE reconnectAttempts
          /\ reconnectDelay' = IF retry THEN backoffDelay(reconnectAttempts + 1) ELSE 0
          /\ socket' = IF retry THEN "waiting" ELSE "dead"
          /\ attempts' = failAttempt(attempts, k, "closed")
          /\ requests' = S1.reqs
          /\ pendingRequests' = S1.table
    /\ isConnected' = FALSE
    /\ connectionPromise' = Null
    /\ UNCHANGED <<clock, handlers, libLoaded, wsUrl, monitorIn, staleReported, uiVars, httpVars>>

OnClose == \E clean \in BOOLEAN : Close(clean)

\* 'error' on the socket held: _onError
OnError ==
    /\ socket \in {"connecting", "open"}
    /\ LET k == handlers
           S == RS(requests, pendingRequests)
           S1 == failWaiters(rejectAllPending(S, Err("WebSocket connection error")), k)
       IN /\ attempts' = failAttempt(attempts, k, "error")
          /\ requests' = S1.reqs
          /\ pendingRequests' = S1.table
    /\ connectionPromise' = Null
    /\ UNCHANGED <<clock, isConnected, socket, handlers, libLoaded, wsUrl,
                   reconnectAttempts, reconnectDelay, monitorIn, staleReported, uiVars, httpVars>>

\* RobustWebSocket's pending reconnect (set with the delay shouldReconnect returned) fires:
\* a new underlying socket starts connecting
Reconnect ==
    /\ socket = "waiting"
    /\ socket' = "connecting"
    /\ reconnectDelay' = 0
    /\ UNCHANGED <<clock, isConnected, handlers, connectionPromise, attempts, libLoaded, wsUrl,
                   reconnectAttempts, pendingRequests, requests, monitorIn, staleReported, uiVars, httpVars>>

\* ------------------------------------------------------------- messages
ResponseActions == {"query_response", "character_creation_response", "combat_response",
                    "level_up_response"}
PushActions == {"typing_status", "character_update"}
\* the tags the environment is made to send: two of the four response tags (their
\* handlers are the same code), a push event, an error and an unregistered tag
InboundActions == {"query_response", "combat_response", "typing_status", "error", "unknown"}

\* request ids an inbound envelope may carry: none, or one this client has used
KnownIds == {requests[i].id : i \in DOMAIN requests} \cup {NoRequestId}

Envelope(action, requestId, content) ==
    [action |-> action, request_id |-> requestId, content |-> content, prefix |-> ""]

\* this.messageHandlers.get(data.action)(data)
dispatch(S, data) ==
    IF data.action \in ResponseActions
    THEN _handleSocketResponse(S, data.request_id, data)
    ELSE IF data.action = "error"
    THEN IF data.request_id # NoRequestId
         THEN _handleSocketError(S, data.request_id, Err(data.content))
         ELSE rejectAllPending(S, ErrWith("WebSocket server error: ", data.content))
    ELSE S

\* a router that runs the typing callback for every push event
callsForAnyPush(data) ==
    IF data.action \in {"typing_status", "character_update"} /\ typingCallback # NoCallback
    THEN <<typingCallback>>
    ELSE <<>>

\* what the handler registered for data.action calls outside the manager: the typing
\* callback if one is set; modifySkillProficiency when a character_update carries skill
\* updates for an actor of the game (content "skills")
calls(data) ==
    IF data.action = "typing_status"
    THEN IF typingCallback # NoCallback THEN <<typingCallback>> ELSE <<>>
    ELSE IF data.action = "character_update" /\ data.content = "skills"
    THEN <<"modifySkillProficiency">>
    ELSE <<>>

\* 'message' on the socket held, carrying the envelope data: _onMessage
Deliver(data) ==
    /\ socket = "open"
    /\ LET S1 == dispatch(RS(requests, pendingRequests), data)
       IN /\ requests' = S1.reqs
          /\ pendingRequests' = S1.table
    /\ invoked' = calls(data)
    /\ UNCHANGED <<clock, isConnected, socket, handlers, connectionPromise, attempts, libLoaded,
                   wsUrl, reconnectAttempts, reconnectDelay, monitorIn, staleReported,
                   typingCallback, httpVars>>

OnMessage ==
    \E action \in InboundActions, id \in KnownIds, content \in Contents :
        Deliver(Envelope(action, id, content))

\* ---------------------------------------------------------------- sends
\* _sendMessage(type, data)
SendMessage ==
    /\ Len(requests) < MaxSends
    /\ IF isConnected /\ socket # "null"
       THEN /\ LET i == Len(requests) + 1
                   S1 == _emitAndWait(RS(Append(requests, NewRequest(Null)), pendingRequests),
                                      i, newRequestId(clock), isConnected, socket)
               IN /\ requests' = S1.reqs
                  /\ pendingRequests' = S1.table
            /\ UNCHANGED <<connVars, reconnectAttempts>>
       ELSE /\ reconnectAttempts' = 0
            /\ connect(wsUrl)
            /\ requests' = Append(requests,
                             IF attempts'[connectReturns].status = "rejected"
                             THEN [NewRequest(connectReturns) EXCEPT
                                      !.status = "rejected", !.settles = 1,
                                      !.result = Err("WebSocket reconnection failed")]
                             ELSE NewRequest(connectReturns))
            /\ pendingRequests' = pendingRequests
    /\ UNCHANGED <<clock, wsUrl, monitorIn, staleReported, uiVars, httpVars>>

\* request i's timer fires, 30 s after it was armed
FireRequestTimeout(i) ==
    /\ requests[i].armed
    /\ requests[i].remaining = 0
    /\ LET S1 == requestTimeout(RS(requests, pendingRequests), i)
       IN /\ requests' = S1.reqs
          /\ pendingRequests' = S1.table
    /\ UNCHANGED <<clock, connVars, wsUrl, reconnectAttempts, monitorIn, staleReported, uiVars, httpVars>>

RequestTimeout == \E i \in DOMAIN requests : FireRequestTimeout(i)

\* the request monitor's setInterval callback; elapsed = now - parseInt(requestId) is the
\* time since the id's timestamp was read, which the entry's request carries as its age
elapsed(reqs, table, id) == reqs[table[id]].age

staleIds(reqs, table) == {id \in DOMAIN table : elapsed(reqs, table, id) > StaleThresholdMs}

\* a sweep that also drops the entries it reports
MonitorEvicting ==
    /\ monitorIn = 0
    /\ staleReported' = staleReported \cup {pendingRequests[id] : id \in staleIds(requests, pendingRequests)}
    /\ monitorIn' = MonitorIntervalMs
    /\ pendingRequests' = [id \in DOMAIN pendingRequests \ staleIds(requests, pendingRequests) |->
                              pendingRequests[id]]
    /\ UNCHANGED <<clock, connVars, wsUrl, reconnectAttempts, requests, uiVars, httpVars>>

\* the setInterval callback of _startRequestMonitoring: one sweep over pendingRequests
Monitor ==
    /\ monitorIn = 0
    /\ staleReported' = staleReported \cup {pendingRequests[id] : id \in staleIds(requests, pendingRequests)}
    /\ monitorIn' = MonitorIntervalMs
    /\ UNCHANGED <<clock, connVars, wsUrl, reconnectAttempts, pendingRequests, requests, uiVars, httpVars>>

\* ----------------------------------------------------------------- time
ArmedRequests == {i \in DOMAIN requests : requests[i].armed}
ArmedAttempts == {a \in DOMAIN attempts : attempts[a].armed}

Remaining ==
    {requests[i].remaining : i \in ArmedRequests}
    \cup {attempts[a].remaining : a \in ArmedAttempts}

MinOf(S) == CHOOSE x \in S : \A y \in S : x <= y

\* d ms pass: a timer that is due runs before more time passes
elapse(d) ==
    /\ requests' = [i \in DOMAIN requests |->
                      IF requests[i].armed
                      THEN [requests[i] EXCEPT !.remaining = @ - d, !.age = @ + d]
                      ELSE requests[i]]
    /\ attempts' = [a \in DOMAIN attempts |->
                      IF attempts[a].armed THEN [attempts[a] EXCEPT !.remaining = @ - d]
                      ELSE attempts[a]]

\* the clock reading was taken as a request id: a later reading differs from it
ReadingUsed == \E i \in DOMAIN requests : requests[i].id = newRequestId(clock)

TickBy(step) ==
    /\ Remaining # {} \/ ReadingUsed
    /\ \A r \in Remaining : r > 0
    /\ elapse(IF Remaining = {} THEN step ELSE Min(step, MinOf(Remaining)))
    /\ monitorIn' = monitorIn
    /\ clock' = IF ReadingUsed THEN clock + 1 ELSE clock
    /\ UNCHANGED <<isConnected, socket, handlers, connectionPromise, libLoaded, wsUrl,
                   reconnectAttempts, reconnectDelay, pendingRequests, staleReported, uiVars, httpVars>>

Tick == TickBy(TickStep)

Next ==
    \/ HostConnect
    \/ SetWsUrl
    \/ ScriptLoad
    \/ ConnectionTimeout
    \/ OnOpen
    \/ OnClose
    \/ OnError
    \/ Reconnect
    \/ OnMessage
    \/ SendMessage
    \/ RequestTimeout
    \/ Tick

Spec == Init /\ [][Next]_vars

\* ------------------------------------------------ _emitAndWait as an operation
\* _emitAndWait(data, requestId) called in any state the manager can be in, with an id
\* made the way _sendMessage makes it
EmitAndWaitCall ==
    /\ Len(requests) < MaxSends
    /\ LET i == Len(requests) + 1
           S1 == _emitAndWait(RS(Append(requests, NewRequest(Null)), pendingRequests),
                              i, newRequestId(clock), isConnected, socket)
       IN /\ requests' = S1.reqs
          /\ pendingRequests' = S1.table
    /\ UNCHANGED <<clock, connVars, wsUrl, reconnectAttempts, monitorIn, staleReported, uiVars, httpVars>>

NextEmit ==
    \/ Next
    \/ EmitAndWaitCall

SpecEmit == Init /\ [][NextEmit]_vars

\* ------------------------------------------- the connection on a finer time grid
\* connect(), the socket's events and the connection timers alone, with time passing
\* in steps of FineStep: attempts can start at different times within one timeout.
TickFine == TickBy(FineStep)

NextConn ==
    \/ HostConnect
    \/ SetWsUrl
    \/ ScriptLoad
    \/ ConnectionTimeout
    \/ OnOpen
    \/ OnClose
    \/ OnError
    \/ Reconnect
    \/ TickFine

SpecConn == Init /\ [][NextConn]_vars

\* ------------------------------------------------------------ push events
Callbacks == {"cb1", "cb2"}
PushContents == {"hello", "skills"}

\* onTypingStatus(callback)
onTypingStatus(callback) ==
    /\ typingCallback' = callback
    /\ UNCHANGED <<clock, connVars, wsUrl, reconnectAttempts, pendingRequests, requests,
                   monitorIn, staleReported, invoked, httpVars>>

\* the callbacks passed to onTypingStatus so far; they are named in the order of the
\* calls, so the one held tells which calls were made
Subscribed ==
    IF typingCallback = NoCallback THEN {}
    ELSE IF typingCallback = "cb1" THEN {"cb1"}
    ELSE {"cb1", "cb2"}

OnTypingStatus ==
    \E callback \in Callbacks \ Subscribed :
        /\ callback = "cb2" => "cb1" \in Subscribed
        /\ onTypingStatus(callback)

\* a push event arrives: no request_id
OnPush ==
    \E action \in PushActions, content \in PushContents :
        Deliver(Envelope(action, NoRequestId, content))

\* the manager with its typing callback and the server's push events
NextPush ==
    \/ HostConnect
    \/ OnOpen
    \/ OnClose
    \/ SendMessage
    \/ OnMessage
    \/ RequestTimeout
    \/ Tick
    \/ OnTypingStatus
    \/ OnPush

SpecPush == Init /\ [][NextPush]_vars

\* ------------------------------------------------ the reconnection supervisor
\* _startPeriodicReconnection: the setInterval callback.  Its period (2 minutes) has
\* no fixed phase against the socket's events, so it may run in any state.
Supervisor ==
    IF ~isConnected /\ socket = "null" /\ connectionPromise = Null
    THEN /\ reconnectAttempts' = 0
         /\ connect(wsUrl)
         /\ UNCHANGED <<clock, wsUrl, pendingRequests, requests, monitorIn, staleReported, uiVars, httpVars>>
    ELSE UNCHANGED vars

\* the manager left to itself: the supervisor, the socket's events and the timers,
\* with no call from the host (the supervisor makes the first connect() too)
NextSup ==
    \/ Supervisor
    \/ ScriptLoad
    \/ ConnectionTimeout
    \/ OnOpen
    \/ OnClose
    \/ OnError
    \/ Reconnect
    \/ TickFine

SpecSup == Init /\ [][NextSup]_vars

\* The supervisor's interval keeps firing, due timers fire and time passes; no host
\* call is required to happen.
FairSup ==
    /\ SpecSup
    /\ WF_vars(Supervisor)
    /\ WF_vars(ConnectionTimeout)
    /\ WF_vars(TickFine)

\* the manager with its host and its supervisor: connect() and _sendMessage calls,
\* the wsUrl setting, the socket's events, the retry decisions, the timers and the
\* supervisor's ticks in any interleaving
NextAll ==
    \/ HostConnect
    \/ SetWsUrl
    \/ ScriptLoad
    \/ ConnectionTimeout
    \/ OnOpen
    \/ OnClose
    \/ OnError
    \/ Reconnect
    \/ OnMessage
    \/ SendMessage
    \/ RequestTimeout
    \/ Supervisor
    \/ Tick

SpecAll == Init /\ [][NextAll]_vars

\* ------------------------------------- the manager with the HTTP fallback
\* The fallback-enabled AgentManager (AgentManager.js lines 800-1393) has the same
\* fields isConnected, socket, reconnectAttempts and pendingRequests, the same message
\* handlers and the same request timer; it has no connectionPromise and no supervisor.

\* the values the 'HTTP API URL' setting takes here
BackendUrls == {"https://frinny.net", "https://api.frinny.net"}

\* backendUrl.includes('/api'), on the values of BackendUrls
includesApi(url) == url = "https://api.frinny.net"

\* the notify operations and the HTTP endpoint each one names
NotifyOps == {"notifyCharacterCreation", "notifyCombatTurn", "notifyLevelUp", "notifyCombatStart"}

endpoint(op) ==
    CASE op = "notifyCharacterCreation" -> "character/create"
      [] op = "notifyCombatTurn" -> "combat/suggest"
      [] op = "notifyLevelUp" -> "character/level-up"
      [] op = "notifyCombatStart" -> "combat/start"

\* endpoint.startsWith('/') ? endpoint : `/${endpoint}` (no endpoint here starts with '/')
formattedEndpoint(ep) == <<"/", ep>>

\* the url _sendRequest fetches: backendUrl alone when it contains '/api'
requestUrl(base, ep) ==
    IF includesApi(base) THEN [base |-> base, path |-> <<>>]
    ELSE [base |-> base, path |-> formattedEndpoint(ep)]

\* _sendRequest(endpoint, data) for request i, up to the fetch() call
_sendRequest(log, i, ep) == Append(log, [req |-> i, url |-> requestUrl(backendUrl, ep)])

\* requestId = Date.now().toString()
fallbackRequestId(t) == <<t>>

\* a notify call: the operation and the value of isConnected it read
NotifyRequest(op) == [op |-> op, connected |-> isConnected] @@ NewRequest(Null)

\* error.message === 'WebSocket not connected'
isNotConnectedError(error) == error.prefix = "" /\ error.content = "WebSocket not connected"

\* the catch of the notify operations, for the calls whose _emitAndWait promise was
\* rejected in this step (unsettled in before, rejected in reqs), in call order: the call
\* goes over HTTP when the error's message is 'WebSocket not connected', else it rethrows
RECURSIVE notifyCatch(_, _, _, _)
notifyCatch(before, reqs, log, i) ==
    IF i > Len(reqs) THEN [reqs |-> reqs, log |-> log]
    ELSE IF /\ i \in DOMAIN before
            /\ before[i].status = "pending"
            /\ reqs[i].status = "rejected"
            /\ isNotConnectedError(reqs[i].result)
         THEN notifyCatch(before, [reqs EXCEPT ![i].status = "fetching"],
                          _sendRequest(log, i, endpoint(reqs[i].op)), i + 1)
         ELSE notifyCatch(before, reqs, log, i + 1)

\* notifyX(data): over the socket when isConnected, else over HTTP; an _emitAndWait that
\* throws 'WebSocket not connected' is caught and the call goes over HTTP
Notify(op) ==
    /\ Len(requests) < MaxSends
    /\ LET i == Len(requests) + 1
           S == RS(Append(requests, NotifyRequest(op)), pendingRequests)
           S1 == IF isConnected
                 THEN _emitAndWait(S, i, fallbackRequestId(clock), isConnected, socket)
                 ELSE S
           caught == S1.reqs[i].status = "rejected"
                     /\ isNotConnectedError(S1.reqs[i].result)
           overHttp == ~isConnected \/ caught
       IN /\ requests' = IF overHttp
                         THEN [S1.reqs EXCEPT ![i] = [@ EXCEPT !.status = "fetching", !.settles = 0,
                                                              !.result = NoResult]]
                         ELSE S1.reqs
          /\ pendingRequests' = S1.table
          /\ httpRequests' = IF overHttp THEN _sendRequest(httpRequests, i, endpoint(op))
                             ELSE httpRequests
    /\ UNCHANGED <<clock, connVars, wsUrl, reconnectAttempts, monitorIn, staleReported, uiVars,
                   backendUrl>>

NotifyCall == \E op \in NotifyOps : Notify(op)

\* the fetch() of request i completes: response.json() when response.ok, else
\* 'HTTP error! status: ...' is thrown, which the notify operation rethrows
HttpResponse(i, ok) ==
    /\ requests[i].status = "fetching"
    /\ requests' = SettleNative([requests EXCEPT ![i].status = "pending"], i,
                                IF ok THEN "resolved" ELSE "rejected",
                                IF ok THEN [NoResult EXCEPT !.action = "json"]
                                ELSE Err("HTTP error! status"))
    /\ UNCHANGED <<clock, connVars, wsUrl, reconnectAttempts, pendingRequests, monitorIn,
                   staleReported, uiVars, httpVars>>

OnHttpResponse == \E i \in DOMAIN requests, ok \in BOOLEAN : HttpResponse(i, ok)

\* the onChange of the 'HTTP API URL' setting
SetBackendUrl ==
    \E url \in BackendUrls \ {backendUrl} :
        /\ backendUrl' = url
        /\ UNCHANGED <<clock, connVars, wsUrl, reconnectAttempts, pendingRequests, requests,
                       monitorIn, staleReported, uiVars, httpRequests>>

\* connect(): the script is loaded when missing, then the socket is created; the catch
\* clears isConnected
FallbackConnect ==
    /\ libLoaded' = TRUE
    /\ IF constructorThrows(wsUrl)
       THEN /\ isConnected' = FALSE
            /\ UNCHANGED socket
       ELSE /\ socket' = "connecting"
            /\ UNCHANGED isConnected
    /\ UNCHANGED <<clock, handlers, connectionPromise, attempts, reconnectDelay, wsUrl,
                   reconnectAttempts, pendingRequests, requests, monitorIn, staleReported,
                   uiVars, httpVars>>

\* the 'open' listener
FallbackOpen ==
    /\ socket = "connecting"
    /\ socket' = "open"
    /\ isConnected' = TRUE
    /\ reconnectAttempts' = 0
    /\ UNCHANGED <<clock, handlers, connectionPromise, attempts, libLoaded, reconnectDelay, wsUrl,
                   pendingRequests, requests, monitorIn, staleReported, uiVars, httpVars>>

\* the 'close' listener, after RobustWebSocket has consulted shouldReconnect
FallbackClose ==
    \E clean \in BOOLEAN :
        /\ socket \in {"connecting", "open"}
        /\ clean => socket = "open"
        /\ LET retry == ~clean /\ shouldReconnect(reconnectAttempts)
               S1 == rejectAllPending(RS(requests, pendingRequests), Err("WebSocket disconnected"))
               R == notifyCatch(requests, S1.reqs, httpRequests, 1)
           IN /\ reconnectAttempts' = IF retry THEN reconnectAttempts + 1 ELSE reconnectAttempts
              /\ socket' = IF retry THEN "waiting" ELSE "dead"
              /\ requests' = R.reqs
              /\ httpRequests' = R.log
              /\ pendingRequests' = S1.table
        /\ isConnected' = FALSE
        /\ UNCHANGED <<clock, handlers, connectionPromise, attempts, libLoaded, reconnectDelay,
                       wsUrl, monitorIn, staleReported, uiVars, backendUrl>>

\* the 'error' listener
FallbackError ==
    /\ socket \in {"connecting", "open"}
    /\ LET S1 == rejectAllPending(RS(requests, pendingRequests), Err("WebSocket connection error"))
           R == notifyCatch(requests, S1.reqs, httpRequests, 1)
       IN /\ requests' = R.reqs
          /\ httpRequests' = R.log
          /\ pendingRequests' = S1.table
    /\ UNCHANGED <<clock, connVars, wsUrl, reconnectAttempts, monitorIn, staleReported, uiVars,
                   backendUrl>>

\* the tags of the fallback-enabled manager's response handlers
FallbackResponseActions == {"query_response", "character_creation_response",
                            "combat_suggestion", "level_up_response"}

\* the messages a server error carries: some text, or the text of the manager's own
\* 'WebSocket not connected' error
ServerMessages == {"hello", "WebSocket not connected"}

\* this.messageHandlers.get(data.action)(data) in the fallback-enabled manager
fallbackDispatch(S, data) ==
    IF data.action \in FallbackResponseActions
    THEN _handleSocketResponse(S, data.request_id, data)
    ELSE IF data.action = "error"
    THEN IF data.request_id # NoRequestId
         THEN _handleSocketError(S, data.request_id, Err(data.content))
         ELSE rejectAllPending(S, ErrWith("WebSocket server error: ", data.content))
    ELSE S

\* the 'message' listener
FallbackMessage ==
    \E action \in {"query_response", "combat_suggestion", "error", "unknown"},
       id \in KnownIds, content \in ServerMessages :
        /\ socket = "open"
        /\ LET S1 == fallbackDispatch(RS(requests, pendingRequests), Envelope(action, id, content))
               R == notifyCatch(requests, S1.reqs, httpRequests, 1)
           IN /\ requests' = R.reqs
              /\ httpRequests' = R.log
              /\ pendingRequests' = S1.table
        /\ UNCHANGED <<clock, connVars, wsUrl, reconnectAttempts, monitorIn, staleReported,
                       uiVars, backendUrl>>

\* the request timer of the fallback-enabled _emitAndWait fires
FallbackRequestTimeout ==
    \E i \in DOMAIN requests :
        /\ requests[i].armed
        /\ requests[i].remaining = 0
        /\ LET S1 == requestTimeout(RS(requests, pendingRequests), i)
               R == notifyCatch(requests, S1.reqs, httpRequests, 1)
           IN /\ requests' = R.reqs
              /\ httpRequests' = R.log
              /\ pendingRequests' = S1.table
        /\ UNCHANGED <<clock, connVars, wsUrl, reconnectAttempts, monitorIn, staleReported,
                       uiVars, backendUrl>>

NextFallback ==
    \/ FallbackConnect
    \/ FallbackOpen
    \/ FallbackClose
    \/ FallbackError
    \/ Reconnect
    \/ NotifyCall
    \/ OnHttpResponse
    \/ SetBackendUrl
    \/ FallbackMessage
    \/ FallbackRequestTimeout
    \/ Tick

SpecFallback == Init /\ [][NextFallback]_vars

\* ------------------------------------------------------ the request monitor
\* The interval of _startRequestMonitoring runs from construction, so a request is
\* registered at any offset within its period.  MonitorStep divides the period, the
\* threshold and both timeouts.
MonitorStep == MonitorIntervalMs \div 4

\* time passes, never past a timer or a sweep that is due
TickMon ==
    /\ monitorIn > 0
    /\ \A r \in Remaining : r > 0
    /\ LET d == Min(MonitorStep, MinOf(Remaining \cup {monitorIn}))
       IN /\ elapse(d)
          /\ monitorIn' = monitorIn - d
    /\ clock' = IF ReadingUsed THEN clock + 1 ELSE clock
    /\ UNCHANGED <<isConnected, socket, handlers, connectionPromise, libLoaded, wsUrl,
                   reconnectAttempts, reconnectDelay, pendingRequests, staleReported, uiVars,
                   httpVars>>

NextMon ==
    \/ HostConnect
    \/ ScriptLoad
    \/ ConnectionTimeout
    \/ OnOpen
    \/ OnClose
    \/ OnMessage
    \/ SendMessage
    \/ RequestTimeout
    \/ Monitor
    \/ TickMon

SpecMon == Init /\ [][NextMon]_vars

\* ------------------------------------------------------- the message router
\* _onMessage on the text of a frame.  A frame is text that JSON.parse rejects, or the
\* text of an envelope; an envelope without an action field has the action NoAction.
NoAction == ""
ThrowingCallback == "cbThrows"
RouterActions == {"query_response", "typing_status", "error", "unknown", NoAction}
HandledActions == ResponseActions \cup PushActions \cup {"error"}

Frame(wellFormed, data) == [wellFormed |-> wellFormed, data |-> data]

Frames ==
    {Frame(wellFormed, Envelope(action, id, content)) :
        wellFormed \in BOOLEAN, action \in RouterActions, id \in KnownIds,
        content \in Contents}

\* messageType && this.messageHandlers.has(messageType)
hasHandler(data) == data.action # NoAction /\ data.action \in HandledActions

\* the handler of data.action throws: the typing callback is one that throws
handlerThrows(data) == data.action = "typing_status" /\ typingCallback = ThrowingCallback

\* a router that answers a frame it cannot route by failing what is pending
discardFailingPending(S) == rejectAllPending(S, Err("WebSocket message"))

\* the else branch and the catch of _onMessage: logError(...) and nothing else
discard(S) == S

\* a router without the try/catch: the exception leaves _onMessage and nothing is logged
uncaught(called) == called

\* catch (error) { logError('WebSocket message parsing', error, ...) }
caught(called) == Append(called, "logError: WebSocket message parsing")

_onMessage(frame) ==
    /\ socket = "open"
    /\ LET data == frame.data
           S == RS(requests, pendingRequests)
           routed == frame.wellFormed /\ hasHandler(data)
           S1 == IF routed THEN dispatch(S, data) ELSE discard(S)
       IN /\ requests' = S1.reqs
          /\ pendingRequests' = S1.table
          /\ invoked' = IF ~frame.wellFormed THEN caught(<<>>)
                        ELSE IF ~hasHandler(data) THEN <<"logError: WebSocket message">>
                        ELSE IF handlerThrows(data) THEN caught(calls(data))
                        ELSE calls(data)
    /\ UNCHANGED <<clock, connVars, wsUrl, reconnectAttempts, monitorIn, staleReported,
                   typingCallback, httpVars>>

OnFrame == \E frame \in Frames : _onMessage(frame)

\* the callback the UI registers, or one that throws
OnTypingStatusAny ==
    \E callback \in {"cb1", ThrowingCallback} \ {typingCallback} : onTypingStatus(callback)

NextRouter ==
    \/ HostConnect
    \/ OnOpen
    \/ OnClose
    \/ SendMessage
    \/ RequestTimeout
    \/ Tick
    \/ OnTypingStatusAny
    \/ OnFrame

SpecRouter == Init /\ [][NextRouter]_vars

\* --------------------------------------------------------------- fairness
\* Timers that are due fire, and time passes.
FairSpec ==
    /\ Spec
    /\ WF_vars(RequestTimeout)
    /\ WF_vars(ConnectionTimeout)
    /\ WF_vars(Tick)

\* ================================================================= properties
Registered == {i \in DOMAIN requests : requests[i].registered}
Pending == {i \in DOMAIN requests : requests[i].status = "pending"}
Settled == {i \in DOMAIN requests : requests[i].status \in {"resolved", "rejected"}}

\* C1: every request _emitAndWait has registered eventually settles (resolved or
\* rejected), whatever messages arrive, when due timers fire and time passes.
C1_EveryRequestSettles ==
    \A i \in 1..MaxSends :
        [](i \in Registered => <>(i \in Settled))

\* C2: requests that are pending together carry distinct request ids, so that each has
\* its own entry of pendingRequests.
C2_DistinctRequestIds ==
    /\ \A i, j \in Pending : i # j => requests[i].id # requests[j].id
    /\ Cardinality(DOMAIN pendingRequests) = Cardinality(Pending)

\* C3: the promise of a request is settled by at most one call of its native
\* resolve/reject, and once settled its outcome never changes: later terminal events
\* for the request do nothing.
C3_TerminatedOnce ==
    /\ [](\A i \in DOMAIN requests : requests[i].settles <= 1)
    /\ [][\A i \in Settled : /\ requests'[i].status = requests[i].status
                             /\ requests'[i].result = requests[i].result
                             /\ requests'[i].settles = requests[i].settles]_vars

\* a request resolved by its response, and the socket closed afterwards: the close
\* found nothing left to reject
C3_Witness ==
    \E i \in Registered :
        /\ requests[i].status = "resolved"
        /\ requests[i].settles = 1
        /\ socket \in {"waiting", "dead"}
        /\ ~isConnected

\* C4: when an envelope with one of the four response actions arrives carrying the
\* request_id of a pending request, that request's promise resolves with the envelope
\* and the id is no longer in pendingRequests.
C4_ResponseResolves ==
    [][\A i \in Pending, action \in ResponseActions, content \in Contents :
         LET data == Envelope(action, requests[i].id, content)
         IN Deliver(data) =>
               /\ requests'[i].status = "resolved"
               /\ requests'[i].result = data
               /\ requests[i].id \notin DOMAIN pendingRequests']_vars

\* C5: a pending request is rejected with the timeout error by its own timer, exactly
\* 30 s after it was sent and never earlier, and its id is then absent from
\* pendingRequests.
C5_TimeoutAtThirtySeconds ==
    /\ [](\A i \in Pending : /\ requests[i].armed
                             /\ requests[i].age + requests[i].remaining = 30000)
    /\ [][\A i \in Pending :
            /\ FireRequestTimeout(i) =>
                  /\ requests'[i].status = "rejected"
                  /\ requests'[i].result = Err("WebSocket response timeout")
                  /\ requests[i].id \notin DOMAIN pendingRequests'
            /\ requests'[i].result = Err("WebSocket response timeout") =>
                  requests[i].age = 30000]_vars

\* C6: when the close event fires with k requests pending, all k are rejected with the
\* disconnection error in that step, isConnected is false and pendingRequests is empty
\* after it.
C6_CloseRejectsAllPending ==
    [][OnClose =>
         /\ \A i \in Pending : /\ requests'[i].status = "rejected"
                               /\ requests'[i].result = Err("WebSocket disconnected")
         /\ ~isConnected'
         /\ pendingRequests' = EmptyTable]_vars

\* C7: _emitAndWait called while not connected (isConnected false or no socket) fails
\* at once with 'WebSocket not connected': no entry is added to pendingRequests, no
\* timer is armed, nothing is sent and no other request is touched.
C7_NotConnectedFailsAtOnce ==
    [][(EmitAndWaitCall /\ (~isConnected \/ socket = "null")) =>
         LET i == Len(requests) + 1
         IN /\ Len(requests') = i
            /\ requests'[i].status = "rejected"
            /\ requests'[i].result = Err("WebSocket not connected")
            /\ ~requests'[i].registered
            /\ ~requests'[i].armed
            /\ ~requests'[i].transmitted
            /\ pendingRequests' = pendingRequests
            /\ \A j \in DOMAIN requests : requests'[j] = requests[j]]_vars

\* a call that failed this way
C7_Witness ==
    \E i \in DOMAIN requests :
        /\ requests[i].status = "rejected"
        /\ requests[i].result = Err("WebSocket not connected")
        /\ ~requests[i].registered
        /\ requests[i].id \notin DOMAIN pendingRequests

\* C8: while a connection attempt is in flight, a connect() call returns that attempt's
\* promise: it starts no new attempt and creates no second socket, and both callers
\* see the one outcome.
C8_ConnectJoinsAttemptInFlight ==
    \A a \in DOMAIN attempts :
        attempts[a].status = "pending" => connectReturns = a

Open == isConnected /\ socket = "open"

\* C9 (as stated): a connect() call made while the connection is Open does not close or
\* replace the socket and leaves isConnected and pendingRequests unchanged.
C9_ConnectWhileOpenIsNoOp ==
    [][((HostConnect \/ SetWsUrl) /\ Open) =>
         /\ socket' = socket
         /\ handlers' = handlers
         /\ isConnected' = isConnected
         /\ pendingRequests' = pendingRequests]_vars

\* C9 (amended): a connect() call made while the connection is Open and no attempt is
\* in flight starts a new attempt: the open socket is closed and replaced by one that
\* is connecting, or by none when creating it throws; pendingRequests and the requests
\* waiting on it are untouched, and isConnected keeps its value unless the creation
\* throws, which sets it false.
C9_ConnectWhileOpenReplacesSocket ==
    [][((HostConnect \/ SetWsUrl) /\ Open /\ connectionPromise = Null) =>
         /\ Len(attempts') = Len(attempts) + 1
         /\ connectionPromise' = Len(attempts')
         /\ socket' \in {"connecting", "null"}
         /\ socket' = "connecting" => /\ isConnected' = isConnected
                                      /\ handlers' = Len(attempts')
                                      /\ attempts'[handlers'].status = "pending"
         /\ socket' = "null" => /\ ~isConnected'
                                /\ attempts'[Len(attempts')].status = "rejected"
         /\ pendingRequests' = pendingRequests
         /\ requests' = requests]_vars

\* the open socket was replaced while a request was pending on it: the manager still
\* says connected, the new socket is connecting, the request is still pending
C9_Witness ==
    /\ isConnected
    /\ socket = "connecting"
    /\ connectionPromise # Null
    /\ connectionPromise = handlers
    /\ Pending # {}

\* C10 (as stated): an attempt whose socket has not opened when its 15 s timer fires is
\* rejected with the timeout error, and when that attempt's handshake completes later
\* isConnected stays false.
C10_LateOpenIgnored ==
    /\ [][\A a \in DOMAIN attempts :
            (FireConnectionTimeout(a) /\ attempts[a].status = "pending") =>
                /\ attempts'[a].status = "rejected"
                /\ attempts'[a].error = "timeout"]_vars
    /\ [][(OnOpen /\ attempts[handlers].error = "timeout" /\ ~isConnected) =>
            ~isConnected']_vars

\* C10 (amended): an attempt whose socket has not opened when its timer fires, 15 s
\* after the socket was requested, is rejected with the timeout error and stays
\* rejected; its socket is kept, and when the handshake completes later the manager
\* becomes Open all the same, the attempt remaining rejected.
C10_TimeoutRejectsLateOpenConnects ==
    /\ [](\A a \in DOMAIN attempts :
            (attempts[a].status = "pending" /\ attempts[a].phase = "socket") =>
                /\ attempts[a].armed
                /\ attempts[a].remaining <= 15000)
    /\ [][\A a \in DOMAIN attempts :
            /\ (FireConnectionTimeout(a) /\ attempts[a].status = "pending") =>
                  /\ attempts'[a].status = "rejected"
                  /\ attempts'[a].error = "timeout"
                  /\ connectionPromise' = Null
                  /\ socket' = socket
            /\ attempts[a].status = "rejected" =>
                  /\ attempts'[a].status = "rejected"
                  /\ attempts'[a].error = attempts[a].error]_vars
    /\ [][(OnOpen /\ attempts[handlers].error = "timeout") =>
            /\ isConnected'
            /\ socket' = "open"]_vars

\* the socket of a timed-out attempt opened afterwards
C10_Witness ==
    /\ handlers # Null
    /\ attempts[handlers].status = "rejected"
    /\ attempts[handlers].error = "timeout"
    /\ socket = "open"
    /\ isConnected

\* automatic retries have stopped: shouldReconnect returned stop on the last close
RetriesStopped == socket = "dead" /\ reconnectAttempts >= maxReconnectAttempts

\* C11: whenever the connection is not Open, no attempt is in flight and the automatic
\* retries have stopped with the budget exhausted, the periodic check eventually resets
\* reconnectAttempts to 0 and calls connect(), no host call being needed.
C11_SupervisorRecovers ==
    (~Open /\ connectionPromise = Null /\ RetriesStopped /\ Len(attempts) < MaxAttempts)
        ~> (reconnectAttempts = 0 /\ connectionPromise # Null)

\* C12: reconnectAttempts counts the failures since it was last reset.  A failure (an
\* abnormal close) met with the counter below 5 is authorised a retry and counts one
\* more, so the first 5 failures of a run are retried; the failure met with the counter
\* at 5, the 6th, gets stop, and the socket that was told stop makes no further retry:
\* it stays as it is until connect() replaces it.
C12_FiveRetriesThenStop ==
    /\ [](reconnectAttempts \in 0..5)
    /\ [][Close(FALSE) =>
            IF reconnectAttempts < 5
            THEN socket' = "waiting" /\ reconnectAttempts' = reconnectAttempts + 1
            ELSE socket' = "dead" /\ reconnectAttempts' = reconnectAttempts]_vars
    /\ [][socket = "dead" => (socket' = "dead" \/ Len(attempts') = Len(attempts) + 1)]_vars
    /\ [][socket = "waiting" => reconnectAttempts' <= reconnectAttempts]_vars

\* the 6th failure of a run has been told stop
C12_Witness ==
    /\ socket = "dead"
    /\ reconnectAttempts = 5
    /\ ~isConnected

\* the delay the policy gives when it finds the counter at n (n < 5), in ms
DelayFrom == [n \in 0..4 |-> <<1500, 2250, 3375, 5000, 5000>>[n + 1]]

\* C13: the reconnection decision depends on reconnectAttempts and
\* maxReconnectAttempts only: every evaluation that finds the counter at n gives the
\* same result, the delay DelayFrom[n] when n < 5 and stop when n >= 5; a stop leaves
\* the counter as it is, so stop is returned again until something outside the policy
\* (an open, a send, the supervisor) resets the counter to 0.
C13_PolicyDeterministic ==
    /\ [][Close(FALSE) =>
            IF reconnectAttempts < maxReconnectAttempts
            THEN /\ reconnectDelay' = DelayFrom[reconnectAttempts]
                 /\ reconnectAttempts' = reconnectAttempts + 1
                 /\ socket' = "waiting"
            ELSE /\ reconnectDelay' = 0
                 /\ reconnectAttempts' = reconnectAttempts
                 /\ socket' = "dead"]_vars
    /\ [][reconnectAttempts' # reconnectAttempts => (Close(FALSE) \/ reconnectAttempts' = 0)]_vars
    /\ [](socket = "waiting" => reconnectDelay = DelayFrom[reconnectAttempts - 1])

\* a retry scheduled by an evaluation that found the counter at 0 after an open had
\* reset it
C13_Witness ==
    /\ socket = "waiting"
    /\ reconnectAttempts = 1
    /\ reconnectDelay = 1500
    /\ attempts[handlers].status = "resolved"

C15_AllSubscribersInvoked ==
    [][\A content \in PushContents :
         Deliver(Envelope("typing_status", NoRequestId, content)) =>
            \A callback \in Subscribed : \E k \in DOMAIN invoked' : invoked'[k] = callback]_vars

\* C16: an inbound error envelope without request_id rejects every request pending at
\* that moment with the server's error and leaves pendingRequests empty.
C16_GlobalErrorRejectsAll ==
    [][\A content \in Contents :
         Deliver(Envelope("error", NoRequestId, content)) =>
            /\ \A i \in Pending :
                  /\ requests'[i].status = "rejected"
                  /\ requests'[i].result = ErrWith("WebSocket server error: ", content)
            /\ pendingRequests' = EmptyTable]_vars

\* C17: responses are matched by request_id only, in any arrival order: with requests
\* a and b both pending, a response carrying b's id resolves b with that response and
\* leaves a as it is, whichever of the two was sent first; a is resolved in its turn
\* by the response that carries a's id.
C17_MatchedByIdOnly ==
    [][\A b \in Pending, action \in ResponseActions, content \in Contents :
         LET data == Envelope(action, requests[b].id, content)
         IN Deliver(data) =>
               /\ requests'[b].status = "resolved"
               /\ requests'[b].result = data
               /\ \A a \in Pending \ {b} : requests'[a] = requests[a]]_vars

\* the fetch() calls made for request i
HttpCallsOf(i) == {k \in DOMAIN httpRequests : httpRequests[k].req = i}

\* C18: in the fallback-enabled manager a notify operation issued while isConnected is
\* false is sent exactly once over HTTP, to the endpoint of that operation, and it adds
\* no entry to pendingRequests and arms no request timer.
C18_NotifyFallsBackToHttpOnce ==
    \A i \in DOMAIN requests :
        ~requests[i].connected =>
            /\ Cardinality(HttpCallsOf(i)) = 1
            /\ \A k \in HttpCallsOf(i) :
                   httpRequests[k].url.path = formattedEndpoint(endpoint(requests[i].op))
            /\ ~requests[i].registered
            /\ ~requests[i].armed
            /\ \A id \in DOMAIN pendingRequests : pendingRequests[id] # i

\* C19: when socket.send throws inside _emitAndWait, the request just registered is
\* rejected in that step with an error wrapping the cause, its timer is cancelled and its
\* id is no longer in pendingRequests; every other request and its entry are as before.
C19_SendThrowRejectsOnlyThatRequest ==
    [][(/\ Len(requests') = Len(requests) + 1
        /\ isConnected
        /\ socket # "null"
        /\ sendThrows(socket))
       => LET i == Len(requests')
          IN /\ requests'[i].registered
             /\ requests'[i].status = "rejected"
             /\ requests'[i].result = ErrWith("WebSocket send failed: ", "InvalidStateError")
             /\ ~requests'[i].armed
             /\ requests'[i].id \notin DOMAIN pendingRequests'
             /\ \A j \in DOMAIN requests :
                    /\ requests'[j] = requests[j]
                    /\ (requests[j].id \in DOMAIN pendingRequests
                        /\ pendingRequests[requests[j].id] = j)
                       => (requests[j].id \in DOMAIN pendingRequests'
                           /\ pendingRequests'[requests[j].id] = j)]_vars

\* the steps in which the connection attempt a, not yet settled, fails: an error event or a
\* close before the open on its socket, its 15 s timer, or an exception during
\* initialisation (the script does not load, or the socket cannot be constructed)
AttemptFails(a) ==
    \/ /\ a \in DOMAIN attempts
       /\ attempts[a].status = "pending"
       /\ \/ OnError /\ socket = "connecting" /\ handlers = a
          \/ OnClose /\ socket = "connecting" /\ handlers = a
          \/ FireConnectionTimeout(a)
          \/ attempts[a].phase = "loading" /\ attempts'[a].phase = "failed"
    \/ /\ a = Len(attempts) + 1
       /\ Len(attempts') = a
       /\ attempts'[a].phase = "failed"

ConnectionErrors == {Err("WebSocket connection error"), Err("WebSocket disconnected")}

\* C20: whenever a connection attempt fails, the manager is not Open afterwards, every
\* request that was in pendingRequests is rejected with a connection error,
\* pendingRequests is empty and the attempt's connect() promise is rejected.
C20_FailedAttemptClosesAndRejects ==
    [][\A a \in 1..MaxAttempts :
          AttemptFails(a) =>
              /\ ~(isConnected' /\ socket' = "open")
              /\ \A id \in DOMAIN pendingRequests :
                     /\ requests'[pendingRequests[id]].status = "rejected"
                     /\ requests'[pendingRequests[id]].result \in ConnectionErrors
              /\ pendingRequests' = EmptyTable
              /\ attempts'[a].status = "rejected"]_vars

\* the attempts that have ended in failure
FailedAttempts == {a \in DOMAIN attempts : attempts[a].status = "rejected"}

\* C21: once a connection attempt has ended in failure, by whichever path,
\* connectionPromise no longer holds it (it is null or a later attempt), so the next
\* connect() starts a fresh attempt instead of returning the failed outcome.
C21_FailedAttemptIsForgotten ==
    \A a \in FailedAttempts : connectionPromise # a

\* the requests that ended by their 30 s timeout
TimedOut ==
    {i \in DOMAIN requests : /\ requests[i].status = "rejected"
                             /\ requests[i].result = Err("WebSocket response timeout")}

\* C22: every request that ended by its 30 s timeout was reported as stale by a sweep of
\* the request monitor before the timeout fired.
C22_StaleReportedBeforeTimeout ==
    \A i \in TimedOut : i \in staleReported

\* request j holds its entry of pendingRequests in the table given
HoldsEntry(table, reqs, j) == reqs[j].id \in DOMAIN table /\ table[reqs[j].id] = j

\* C23: when the timer armed for a pending request fires, that request is the only one
\* rejected: every other request is as before, and every other pending request keeps its
\* entry in pendingRequests and its armed timer.
C23_TimeoutRejectsOneRequest ==
    [][\A i \in Pending :
          FireRequestTimeout(i) =>
              \A j \in DOMAIN requests \ {i} :
                  /\ requests'[j] = requests[j]
                  /\ HoldsEntry(pendingRequests, requests, j)
                       => HoldsEntry(pendingRequests', requests', j) /\ requests'[j].armed]_vars

\* C24: at every state pendingRequests holds exactly the requests that were sent and
\* are not yet terminated: a registered request whose promise is unsettled holds an
\* entry, and every entry belongs to a registered, unsettled request.
C24_TableIsThePendingRequests ==
    /\ \A i \in Registered :
           requests[i].status = "pending" <=> HoldsEntry(pendingRequests, requests, i)
    /\ \A id \in DOMAIN pendingRequests :
           /\ pendingRequests[id] \in Registered
           /\ requests[pendingRequests[id]].id = id

\* C25: each pending request has its 30 s timer armed, whatever the state of the
\* connection, and no timer is armed for a request that has been terminated.
C25_OneTimerPerPendingRequest ==
    \A i \in Registered :
        /\ requests[i].status = "pending" => requests[i].armed
        /\ requests[i].status \in {"resolved", "rejected"} => ~requests[i].armed

\* C26: an error envelope carrying the request_id of a pending request rejects that
\* request with the server's message and removes its entry; every other request, the
\* entries of the other pending requests and isConnected are unchanged.
C26_ErrorEnvelopeRejectsItsRequest ==
    [][\A i \in Pending, content \in Contents :
          LET data == Envelope("error", requests[i].id, content)
          IN Deliver(data) =>
                /\ requests'[i].status = "rejected"
                /\ requests'[i].result = Err(content)
                /\ requests[i].id \notin DOMAIN pendingRequests'
                /\ \A j \in DOMAIN requests \ {i} :
                       /\ requests'[j] = requests[j]
                       /\ HoldsEntry(pendingRequests, requests, j)
                            => HoldsEntry(pendingRequests', requests', j)
                /\ isConnected' = isConnected]_vars

\* the tags whose handlers look the request_id up in pendingRequests
CorrelatedActions == ResponseActions \cup {"error"}

\* C27: a response or error envelope whose request_id is not in pendingRequests is
\* dropped: no promise is settled, and pendingRequests, the timers and the connection
\* state are unchanged.
C27_UnknownIdIsDropped ==
    [][\A action \in CorrelatedActions, id \in KnownIds \ {NoRequestId}, content \in Contents :
          (id \notin DOMAIN pendingRequests /\ Deliver(Envelope(action, id, content)))
          => /\ requests' = requests
             /\ pendingRequests' = pendingRequests
             /\ attempts' = attempts
             /\ UNCHANGED <<isConnected, socket, connectionPromise, reconnectAttempts>>]_vars

\* the socket is open, a request that was sent has been terminated and its id is gone
\* from the table, so its response would come late, while another request is pending
C27_Witness ==
    /\ socket = "open"
    /\ \E i \in Registered :
           /\ requests[i].transmitted
           /\ requests[i].status = "rejected"
           /\ requests[i].id \notin DOMAIN pendingRequests
    /\ pendingRequests # EmptyTable

\* the log call a frame that is not routed produces
DiscardLog(frame) ==
    IF frame.wellFormed THEN <<"logError: WebSocket message">>
    ELSE <<"logError: WebSocket message parsing">>

\* C28: a frame that fails JSON parsing, has no action field or has an unrecognised
\* action is logged and discarded: the requests, pendingRequests, isConnected,
\* reconnectAttempts and the socket with its listeners are unchanged, so later frames
\* are still routed.
C28_UnroutableFrameDiscarded ==
    [][\A frame \in Frames :
          ((~frame.wellFormed \/ ~hasHandler(frame.data)) /\ _onMessage(frame))
          => /\ requests' = requests
             /\ pendingRequests' = pendingRequests
             /\ UNCHANGED <<isConnected, reconnectAttempts, socket, handlers>>
             /\ invoked' = DiscardLog(frame)]_vars

\* a frame was discarded with its log entry while a request was pending on the open socket
C28_Witness ==
    /\ socket = "open"
    /\ Pending # {}
    /\ invoked \in {<<"logError: WebSocket message">>, <<"logError: WebSocket message parsing">>}

\* C29: an exception thrown by the typing callback while a typing_status event is
\* routed is caught and logged by _onMessage: the requests, pendingRequests and the
\* connection state are unchanged and the listener stays attached to the open socket.
C29_CallbackExceptionCaught ==
    [][\A frame \in Frames :
          (frame.wellFormed /\ handlerThrows(frame.data) /\ _onMessage(frame))
          => /\ requests' = requests
             /\ pendingRequests' = pendingRequests
             /\ UNCHANGED <<isConnected, reconnectAttempts, socket, handlers, connectionPromise,
                            typingCallback>>
             /\ invoked' = <<ThrowingCallback, "logError: WebSocket message parsing">>]_vars

\* the throwing callback was called and its exception logged while a request was pending
C29_Witness ==
    /\ socket = "open"
    /\ Pending # {}
    /\ invoked = <<ThrowingCallback, "logError: WebSocket message parsing">>

\* a geometric sequence of delays: first for the first retry, each further one 1.5 times
\* the one before, capped at 5000 ms
RECURSIVE Geometric(_, _)
Geometric(first, k) ==
    IF k = 1 THEN first ELSE Min((Geometric(first, k - 1) * 3) \div 2, MaxDelayMs)

\* C30 (as stated): the delay of the first retry is the base delay of 1000 ms, each
\* further retry has 1.5 times the delay of the one before, capped at 5000 ms.
C30_BackoffStartsAtBase ==
    [][(Close(FALSE) /\ reconnectAttempts < maxReconnectAttempts)
       => reconnectDelay' = Geometric(BaseDelayMs, reconnectAttempts + 1)]_vars

\* C30 (amended): the delay of the first retry is 1500 ms (the base of 1000 ms times
\* 1.5), each further retry has 1.5 times the delay of the one before, capped at
\* 5000 ms; the delay is non-decreasing in the attempt count and never exceeds 5000 ms.
C30_BackoffStartsAtBaseTimesFactor ==
    /\ [][(Close(FALSE) /\ reconnectAttempts < maxReconnectAttempts)
          => /\ reconnectDelay' = Geometric((BaseDelayMs * 3) \div 2, reconnectAttempts + 1)
             /\ reconnectDelay' = backoffDelay(reconnectAttempts + 1)]_vars
    /\ [](reconnectDelay <= MaxDelayMs)
    /\ [](\A k \in 1..(maxReconnectAttempts - 1) : backoffDelay(k) <= backoffDelay(k + 1))

\* the fourth retry in a row is scheduled, with the delay at its cap
C30_Witness ==
    /\ socket = "waiting"
    /\ reconnectAttempts = 4
    /\ reconnectDelay = MaxDelayMs

\* C31 (as stated): reconnectAttempts is 0 right after every open event, and every
\* abnormal close (a failed or a dropped connection) increments it by exactly one.
C31_CounterCountsEveryFailure ==
    /\ [][OnOpen => reconnectAttempts' = 0]_vars
    /\ [][Close(FALSE) => reconnectAttempts' = reconnectAttempts + 1]_vars

\* C31 (amended): reconnectAttempts is 0 right after every open event; an abnormal close
\* increments it by exactly one while it is below maxReconnectAttempts and leaves it
\* unchanged once it has reached that maximum; nothing else increases it.
C31_CounterCountsAuthorisedRetries ==
    /\ [][OnOpen => reconnectAttempts' = 0]_vars
    /\ [][Close(FALSE) =>
            reconnectAttempts' = IF reconnectAttempts < maxReconnectAttempts
                                 THEN reconnectAttempts + 1 ELSE reconnectAttempts]_vars
    /\ [][reconnectAttempts' > reconnectAttempts =>
            Close(FALSE) /\ reconnectAttempts' = reconnectAttempts + 1]_vars

\* the socket opened on a retry after its attempt had failed by a close: the open
\* found the counter above 0 and reset it
C31_Witness ==
    /\ socket = "open"
    /\ isConnected
    /\ reconnectAttempts = 0
    /\ handlers # Null
    /\ attempts[handlers].status = "rejected"
    /\ attempts[handlers].error = "closed"

\* C32: in the fallback-enabled manager a notify operation that was registered and sent
\* over the WebSocket makes no HTTP request, however its request is rejected (timeout,
\* disconnect, server error, send failure): the rejection reaches the caller.
C32_NoFallbackAfterRejection ==
    \A i \in Registered : HttpCallsOf(i) = {}

\* C33: a change of the wsUrl setting starts a connection attempt to the new URL in
\* whatever state the manager is: a new attempt is created, or the attempt in flight has
\* not read wsUrl yet (it is still loading the script) and will connect to the new URL.
C33_UrlChangeReconnects ==
    [][SetWsUrl =>
          \/ Len(attempts') = Len(attempts) + 1
          \/ /\ connectionPromise # Null
             /\ attempts[connectionPromise].phase = "loading"]_vars

\* the requests whose _sendMessage call waited on connect()
Waited == {i \in DOMAIN requests : requests[i].attempt # Null}

\* C34: two _sendMessage calls made while disconnected wait on one connection attempt;
\* once it opens both requests are registered under distinct request_ids, and a response
\* carrying the id of one of them resolves that one with it.
C34_TwoSendsWhileDisconnected ==
    /\ [](\A i, j \in Waited :
             (i # j /\ requests[i].registered /\ requests[j].registered
              /\ requests[i].attempt = requests[j].attempt)
             => requests[i].id # requests[j].id)
    /\ [][\A i \in Waited \cap Pending, action \in ResponseActions, content \in Contents :
             LET data == Envelope(action, requests[i].id, content)
             IN Deliver(data) => requests'[i].status = "resolved" /\ requests'[i].result = data]_vars

\* C35: isConnected is true only while the socket the manager holds is open: it has
\* opened and has not since closed or been replaced.
C35_ConnectedMeansSocketOpen ==
    isConnected => socket = "open"

\* C36: whenever isConnected is false pendingRequests is empty.
C36_NothingPendingWhileDisconnected ==
    ~isConnected => pendingRequests = EmptyTable

\* C37: a _sendMessage call that awaited connect() on an attempt that failed is
\* rejected with 'WebSocket reconnection failed'; its request was neither
\* registered in pendingRequests nor transmitted.
C37_FailedReconnectRejectsTheSend ==
    \A i \in DOMAIN requests :
        (requests[i].attempt # Null /\ attempts[requests[i].attempt].status = "rejected") =>
            /\ requests[i].status = "rejected"
            /\ requests[i].result = Err("WebSocket reconnection failed")
            /\ ~requests[i].registered
            /\ ~requests[i].transmitted
            /\ requests[i].id = NoRequestId
            /\ \A id \in DOMAIN pendingRequests : pendingRequests[id] # i

\* a send waited on an attempt that later failed, while another request is pending
C37_Witness ==
    \E i \in DOMAIN requests :
        /\ requests[i].attempt # Null
        /\ attempts[requests[i].attempt].status = "rejected"
        /\ attempts[requests[i].attempt].error # "initialization"
        /\ requests[i].status = "rejected"

\* C38: reconnectAttempts stays between 0 and maxReconnectAttempts in every reachable
\* state, whatever the interleaving of retry decisions, opens, sends and supervisor ticks.
C38_CounterWithinBounds ==
    /\ reconnectAttempts >= 0
    /\ reconnectAttempts <= maxReconnectAttempts

\* the counter is at its maximum after a send of the host was made
C38_Witness ==
    /\ reconnectAttempts = maxReconnectAttempts
    /\ Len(requests) > 0
    /\ socket = "dead"

\* C39: a sweep of the request monitor only reads state: it changes neither
\* pendingRequests, nor any request or its timer, nor isConnected, reconnectAttempts
\* or connectionPromise.
C39_SweepOnlyReads ==
    [][Monitor =>
          /\ pendingRequests' = pendingRequests
          /\ requests' = requests
          /\ \A i \in DOMAIN requests :
                /\ requests'[i].armed = requests[i].armed
                /\ requests'[i].remaining = requests[i].remaining
          /\ isConnected' = isConnected
          /\ reconnectAttempts' = reconnectAttempts
          /\ connectionPromise' = connectionPromise]_vars

\* a sweep has reported a request that is still pending, in the table, its timer armed
C39_Witness ==
    \E i \in staleReported :
        /\ requests[i].status = "pending"
        /\ requests[i].armed
        /\ HoldsEntry(pendingRequests, requests, i)
        /\ monitorIn = MonitorIntervalMs

====
